---- MODULE Spec2Model ----
(***************************************************************************)
(* Model of the Difuser audio plug-in (Source/PluginProcessor.cpp/.h):     *)
(* CircularBuffer, DelayLineDifuser, EnvelopeFollower and the host entry   *)
(* points of DifuserAudioProcessor.                                        *)
(*                                                                         *)
(* Numbers.  The code computes in 32-bit float.  Here a sample value v     *)
(* stands for v / UNIT and a delay, read index or interpolation weight w   *)
(* stands for w / WSCALE; a product is truncated toward zero to the grid   *)
(* (MulFrac), which stands for the float rounding of the product.          *)
(***************************************************************************)
EXTENDS Integers, Sequences, FiniteSets, TLC

VARIABLES
    cb,                  \* a CircularBuffer object driven on its own (SpecRing)
    hist,                \* ghost: samples written to cb since Init/Clear, newest last
    rd,                  \* ghost: what the last read of cb computed
    m_delayLineDifuser,  \* DifuserAudioProcessor::m_delayLineDifuser[2]
    m_envelopeFollower,  \* DifuserAudioProcessor::m_envelopeFollower[2]
    outBuf,              \* the audio buffer the last processBlock left, per channel
    wetBuf,              \* ghost: the ProcessSample results of the last call(s)
    last,                \* ghost: the arguments and per-stage values of the last call
    nCalls,              \* number of processing calls made so far
    params,              \* the parameter values the processor reads (apvts)
    phase                \* "constructed", "prepared" or "released"

vars == <<cb, hist, rd, m_delayLineDifuser, m_envelopeFollower, outBuf, wetBuf,
          last, nCalls, params, phase>>

(***************************************************************************)
(* Number representation                                                   *)
(***************************************************************************)
UNIT == 10000
WSCALE == 10000

Abs(x) == IF x < 0 THEN -x ELSE x
Sgn(x) == IF x < 0 THEN -1 ELSE 1

\* the element of a one-element set; The({F(v) : v \in {e}}) is F(e) with e
\* evaluated once
The(S) == CHOOSE x \in S : TRUE

\* x * num / den truncated toward zero, without an intermediate overflow
MulFrac(x, num, den) ==
    The({ (Sgn(v) * Sgn(n)) * ((Abs(v) \div den) * Abs(n) + ((Abs(v) % den) * Abs(n)) \div den)
          : v \in {x}, n \in {num} })

\* static_cast<int>(q / WSCALE): truncation toward zero
TruncInt(q) == IF q >= 0 THEN q \div WSCALE ELSE -((-q) \div WSCALE)

(***************************************************************************)
(* CircularBuffer                                                          *)
(***************************************************************************)
N_DELAY_LINES == 4
N_STAGES == 8

\* a default-constructed CircularBuffer: m_head = 0, m_size = 0, empty m_buffer
NewCircularBuffer == [m_buffer |-> << >>, m_head |-> 0, m_size |-> 0]

\* CircularBuffer::Init(size).  AudioBuffer::setSize(1, size) does nothing when the
\* size is unchanged and otherwise allocates storage it does not initialise: fill
\* is the content that storage happens to hold
CircularBufferInit(b, size, fill) ==
    [m_buffer |-> IF Len(b.m_buffer) = size THEN b.m_buffer ELSE fill,
     m_head |-> 0, m_size |-> size]

\* CircularBuffer::Clear()
CircularBufferClear(b) ==
    [b EXCEPT !.m_head = 0, !.m_buffer = [i \in 1..Len(b.m_buffer) |-> 0]]

\* the successor of the write cursor
NextHeadWrong(head, size) == IF head + 1 > size THEN 0 ELSE head + 1
NextHead(head, size) == IF head + 1 >= size THEN 0 ELSE head + 1

\* CircularBuffer::WriteSample(sample)
WriteSample(b, sample) ==
    [b EXCEPT !.m_buffer = [b.m_buffer EXCEPT ![b.m_head + 1] = sample],
              !.m_head = NextHead(b.m_head, b.m_size)]

\* m_buffer.getSample(0, i); an index outside the storage reads memory the
\* buffer does not own: g is the value found there
GetSample(b, i, g) ==
    IF i >= 0 /\ i < Len(b.m_buffer) THEN b.m_buffer[i + 1] ELSE g

\* the single conditional subtraction ReadDelay wraps an index with
WrapIndexWrong(i, bufferSize) == IF i <= bufferSize THEN i ELSE i - bufferSize
WrapIndex(i, bufferSize) == IF i < bufferSize THEN i ELSE i - bufferSize

\* CircularBuffer::ReadDelay(sample): sampleQ is the delay in 1/WSCALE samples
ReadDelay(b, sampleQ, g) ==
    LET bufferSize == b.m_size
        readIdx == (b.m_head + bufferSize) * WSCALE - sampleQ
        flr == TruncInt(readIdx)
        iPrev == WrapIndex(flr, bufferSize)
        iNext == WrapIndex(flr + 1, bufferSize)
        weight == readIdx - flr * WSCALE
    IN  [delay |-> sampleQ, readIdx |-> readIdx, iPrev |-> iPrev, iNext |-> iNext,
         weight |-> weight,
         value |-> MulFrac(GetSample(b, iPrev, g), WSCALE - weight, WSCALE)
                   + MulFrac(GetSample(b, iNext, g), weight, WSCALE)]

\* the delay ReadFactor asks for: 2.0f + m_size * factor * 0.98f, factor in percent
FactorDelay(size, factor) == 2 * WSCALE + size * factor * 98

\* CircularBuffer::ReadFactor(factor)
ReadFactor(b, factor, g) == ReadDelay(b, FactorDelay(b.m_size, factor), g)

\* CircularBuffer::Read()
Read(b, g) == GetSample(b, b.m_head, g)

(***************************************************************************)
(* SpecRing: one CircularBuffer driven through its public methods.  The    *)
(* caller keeps the documented order: Init before any read or write.       *)
(***************************************************************************)
MaxSize == 3

\* sample values written by the caller
Samples == {0, UNIT, -UNIT}

\* what a read outside the storage may find
Garbage == {0, 7 * UNIT}

\* length factor values, in percent (the parameter range is 0 .. 100)
Factors == {0, 10, 50, 100}

\* delays in [0, size), in steps of half a sample
Delays(size) == {k * (WSCALE \div 2) : k \in 0..(2 * size - 1)}

NoRead == [op |-> "none", delay |-> 0, readIdx |-> 0, iPrev |-> 0, iNext |-> 0,
           weight |-> 0, value |-> 0]

NoCall == [op |-> "none"]

\* the newest size samples of h
KeepLast(h, size) == IF Len(h) > size THEN Tail(h) ELSE h

RingInit(size, fill) ==
    /\ cb' = CircularBufferInit(cb, size, fill)
    /\ hist' = << >>
    /\ nCalls' = 0
    /\ rd' = NoRead
    /\ last' = [op |-> "Init"]
    /\ UNCHANGED <<m_delayLineDifuser, m_envelopeFollower, outBuf, wetBuf, params, phase>>

RingClear ==
    /\ cb' = CircularBufferClear(cb)
    /\ hist' = << >>
    /\ nCalls' = 0
    /\ rd' = NoRead
    /\ last' = [op |-> "Clear"]
    /\ UNCHANGED <<m_delayLineDifuser, m_envelopeFollower, outBuf, wetBuf, params, phase>>

\* nCalls counts the writes since Init/Clear and stops counting at 2 * m_size
RingWrite(sample) ==
    /\ cb.m_size >= 1
    /\ cb' = WriteSample(cb, sample)
    /\ hist' = KeepLast(Append(hist, sample), cb.m_size)
    /\ nCalls' = IF nCalls < 2 * cb.m_size THEN nCalls + 1 ELSE nCalls
    /\ rd' = NoRead
    /\ last' = [op |-> "WriteSample", sample |-> sample]
    /\ UNCHANGED <<m_delayLineDifuser, m_envelopeFollower, outBuf, wetBuf, params, phase>>

RingReadDelay(sampleQ, g) ==
    /\ cb.m_size >= 1
    /\ rd' = [op |-> "ReadDelay"] @@ ReadDelay(cb, sampleQ, g)
    /\ last' = [op |-> "ReadDelay"]
    /\ UNCHANGED <<cb, hist, nCalls, m_delayLineDifuser, m_envelopeFollower, outBuf,
                   wetBuf, params, phase>>

RingReadFactor(factor, g) ==
    /\ cb.m_size >= 1
    /\ rd' = [op |-> "ReadFactor"] @@ ReadFactor(cb, factor, g)
    /\ last' = [op |-> "ReadFactor"]
    /\ UNCHANGED <<cb, hist, nCalls, m_delayLineDifuser, m_envelopeFollower, outBuf,
                   wetBuf, params, phase>>

RingRead(g) ==
    /\ cb.m_size >= 1
    /\ rd' = [NoRead EXCEPT !.op = "Read", !.iPrev = cb.m_head, !.iNext = cb.m_head,
                            !.value = Read(cb, g)]
    /\ last' = [op |-> "Read"]
    /\ UNCHANGED <<cb, hist, nCalls, m_delayLineDifuser, m_envelopeFollower, outBuf,
                   wetBuf, params, phase>>

\* SpecRing has no processor object
InitRing ==
    /\ cb = NewCircularBuffer
    /\ hist = << >>
    /\ rd = NoRead
    /\ last = NoCall
    /\ nCalls = 0
    /\ m_delayLineDifuser = << >>
    /\ m_envelopeFollower = << >>
    /\ params = << >>
    /\ outBuf = << >>
    /\ wetBuf = << >>
    /\ phase = "none"

NextRing ==
    \/ \E size \in 1..MaxSize : \E fill \in [1..size -> Garbage] : RingInit(size, fill)
    \/ RingClear
    \/ \E sample \in Samples : RingWrite(sample)
    \/ \E sampleQ \in Delays(cb.m_size) : \E g \in Garbage : RingReadDelay(sampleQ, g)
    \/ \E factor \in Factors : \E g \in Garbage : RingReadFactor(factor, g)
    \/ \E g \in Garbage : RingRead(g)

SpecRing == InitRing /\ [][NextRing]_vars

(***************************************************************************)
(* Claims about CircularBuffer, checked under SpecRing                     *)
(***************************************************************************)
InRing(i) == i >= 0 /\ i < cb.m_size

\* C1 (as claimed): for every capacity N >= 1, head and factor in [0, 1],
\* ReadFactor's delay 2 + N*factor*0.98 lies in [0, N), the read position is
\* non-negative, iPrev and iNext lie in [0, N) and the weight lies in [0, 1).
C1_ReadFactorInRange ==
    rd.op = "ReadFactor" =>
        /\ rd.delay >= 0 /\ rd.delay < cb.m_size * WSCALE
        /\ rd.readIdx >= 0
        /\ InRing(rd.iPrev) /\ InRing(rd.iNext)
        /\ rd.weight >= 0 /\ rd.weight < WSCALE

\* C2 (as claimed): for every capacity N >= 1, reachable head and delay d in
\* [0, N), d = 0 included, ReadDelay(d) touches only indices in [0, N).
C2_ReadDelayIndicesInRange ==
    (rd.op = "ReadDelay" /\ rd.delay >= 0 /\ rd.delay < cb.m_size * WSCALE) =>
        (InRing(rd.iPrev) /\ InRing(rd.iNext))

\* C3: once at least N samples were written since Init/Clear, ReadDelay(d) for an
\* integer d in [1, N-1] returns exactly the sample written d writes ago (d = 1 is
\* the newest), whatever the head position.
C3_RoundTrip ==
    (/\ rd.op = "ReadDelay"
     /\ Len(hist) = cb.m_size
     /\ rd.delay % WSCALE = 0
     /\ rd.delay \div WSCALE \in 1..(cb.m_size - 1)) =>
        rd.value = hist[Len(hist) - (rd.delay \div WSCALE) + 1]

\* a read of the second newest sample right after the head wrapped to 0
C3_Witness ==
    /\ rd.op = "ReadDelay"
    /\ cb.m_size = 3 /\ Len(hist) = 3 /\ nCalls = 6 /\ cb.m_head = 0
    /\ rd.delay = 2 * WSCALE
    /\ hist = <<0, UNIT, -UNIT>>
    /\ rd.value = UNIT

\* C7: 0 <= head < N in every state after Init(N), N >= 1; N writes after a Clear
\* bring the head back to 0 having overwritten every slot once; WriteSample stores
\* at the old head and moves the head to (head + 1) mod N; Clear sets the head to 0
\* and keeps the capacity.
RingCursorInv ==
    cb.m_size >= 1 =>
        /\ cb.m_head >= 0 /\ cb.m_head < cb.m_size
        /\ Len(cb.m_buffer) = cb.m_size
        /\ nCalls < 2 * cb.m_size => cb.m_head = nCalls % cb.m_size
        /\ nCalls = cb.m_size => (cb.m_head = 0 /\ cb.m_buffer = hist)

RingCursorStep ==
    /\ last'.op = "WriteSample" =>
        /\ cb'.m_buffer = [cb.m_buffer EXCEPT ![cb.m_head + 1] = last'.sample]
        /\ cb'.m_head = (cb.m_head + 1) % cb.m_size
        /\ cb'.m_size = cb.m_size
    /\ last'.op = "Clear" =>
        /\ cb'.m_head = 0
        /\ cb'.m_size = cb.m_size
        /\ \A i \in 1..cb.m_size : cb'.m_buffer[i] = 0

C7_RingCursor == [](RingCursorInv) /\ [][RingCursorStep]_vars

\* the write that wraps the head of a 3-sample ring back to 0
C7_Witness ==
    /\ last.op = "WriteSample" /\ cb.m_size = 3 /\ cb.m_head = 0 /\ nCalls = 3
    /\ cb.m_buffer = <<UNIT, 0, -UNIT>>

(***************************************************************************)
(* DelayLineDifuser                                                        *)
(***************************************************************************)
Stages == 0..(N_STAGES - 1)
DelayLines == 0..(N_DELAY_LINES - 1)

\* DelayLineDifuser::DelayLineDifuser(): 8 x 4 default-constructed lines
NewDelayLineDifuser == [stage \in Stages |-> [delayLine \in DelayLines |-> NewCircularBuffer]]

\* float default[N_DELAY_LINES] = { 0.49f, 1.41f, 6.85f, 11.23f }, in hundredths
DefaultFactor == <<49, 141, 685, 1123>>

\* the size DelayLineDifuser::Init gives a line:
\*   1 + (int)(delayFactor * sampleRate * 0.001f * default[delayLine] * (0.87f + stage))
\* delayFactor in tenths; the product is floored exactly, in two steps that fit the
\* integer range for delayFactor * sampleRate up to 200000
LineSize(delayFactor, sampleRate, stage, delayLine) ==
    LET a == delayFactor * sampleRate
        b == DefaultFactor[delayLine + 1] * (87 + 100 * stage)
    IN  1 + (a * (b \div 10000) + (a * (b % 10000)) \div 10000) \div 10000

\* DelayLineDifuser::Init(delayFactor, sampleRate); fill is the value the newly
\* allocated storage happens to hold
DifuserInit(net, delayFactor, sampleRate, fill) ==
    [stage \in Stages |-> [delayLine \in DelayLines |->
        LET size == LineSize(delayFactor, sampleRate, stage, delayLine)
        IN  CircularBufferInit(net[stage][delayLine], size, [i \in 1..size |-> fill])]]

\* DelayLineDifuser::Clear()
DifuserClear(net) ==
    [stage \in Stages |-> [delayLine \in DelayLines |->
        CircularBufferClear(net[stage][delayLine])]]

\* the density clamp at the head of ProcessSample
ClampDensityWrong(density) ==
    IF density > N_STAGES THEN N_STAGES ELSE IF density < 3 THEN 3 ELSE density
ClampDensityNoLower(density) ==
    IF density > N_STAGES THEN N_STAGES ELSE IF density < 1 THEN 1 ELSE density
ClampDensity(density) ==
    IF density > N_STAGES THEN N_STAGES ELSE IF density < 2 THEN 2 ELSE density

\* dryMix = (1.0f - stage / densitySafe) * 0.5f, in 1/WSCALE; stage / densitySafe
\* divides two ints
DryMix(stage, densitySafe) == ((1 - stage \div densitySafe) * WSCALE) \div 2

\* (1.0f - (densitySafe / N_STAGES) * 0.75f), in 1/WSCALE; densitySafe / N_STAGES
\* divides two ints
OutputScale(densitySafe) == WSCALE - (densitySafe \div N_STAGES) * ((75 * WSCALE) \div 100)

\* the four seeds of the first stage
SeedInputs(inSample) ==
    [delayLine \in DelayLines |->
        CASE delayLine = 0 -> MulFrac(inSample, 8, 10)
          [] delayLine = 1 -> MulFrac(inSample, 12, 10)
          [] delayLine = 2 -> -inSample - UNIT \div 10
          [] OTHER -> -inSample + UNIT \div 10]

\* the mixing matrix with the dry bleed added
MixOutputs(o, dry) ==
    [delayLine \in DelayLines |->
        CASE delayLine = 0 -> dry + o[0] + o[1] + o[2] + o[3]
          [] delayLine = 1 -> dry + o[0] - o[1] + o[2] - o[3]
          [] delayLine = 2 -> dry + o[0] + o[1] - o[2] - o[3]
          [] OTHER -> dry + o[0] - o[1] - o[2] + o[3]]

\* the stage loop of ProcessSample, from stage on
RECURSIVE RunStages(_, _, _, _, _, _, _)
RunStages(net, delayIn, stage, densitySafe, inSample, factor, g) ==
    IF stage >= densitySafe
    THEN [net |-> net, delayIn |-> delayIn]
    ELSE LET written == [delayLine \in DelayLines |->
                            WriteSample(net[stage][delayLine], delayIn[delayLine])]
             delayOut == [delayLine \in DelayLines |->
                            ReadFactor(written[delayLine], factor, g).value]
             dry == MulFrac(inSample, DryMix(stage, densitySafe), WSCALE)
         IN  RunStages([net EXCEPT ![stage] = written], MixOutputs(delayOut, dry),
                       stage + 1, densitySafe, inSample, factor, g)

\* DelayLineDifuser::ProcessSample(inSample, factor, density): the network it leaves
\* and the value it returns
ProcessSample(net, inSample, factor, density, g) ==
    LET densitySafe == ClampDensity(density)
        r == RunStages(net, SeedInputs(inSample), 0, densitySafe, inSample, factor, g)
        sum == r.delayIn[0] + r.delayIn[1] + r.delayIn[2] + r.delayIn[3]
    IN  [net |-> r.net,
         out |-> MulFrac(MulFrac(sum, 15, 1000), OutputScale(densitySafe), WSCALE)]

(***************************************************************************)
(* SpecDifuser: one DelayLineDifuser, m_delayLineDifuser[0], driven        *)
(* through its public methods.  The caller calls Init before it processes  *)
(* and again only after a Clear, and keeps one factor, params.factor, for  *)
(* the whole run.  hist lists the density arguments since the last Clear.  *)
(***************************************************************************)
MaxCalls == 3

\* sample rates the host announces; 5.0 (50 tenths) is the delayFactor of prepareToPlay
SampleRates == {600}
DifusionLenght == 50

\* input samples
Inputs == {0, UNIT}

\* the length factor of the runs of the network, in percent
NetFactors == {50}

\* density arguments, in and out of the parameter range 2 .. 8
Densities == {-1, 3, 9}

\* what a call of ProcessSample leaves in the ghost variable last
CallRecord(inSample, factor, density, g) ==
    LET densitySafe == ClampDensity(density)
    IN  [op |-> "ProcessSample", inSample |-> inSample, factor |-> factor,
         density |-> density, g |-> g, densitySafe |-> densitySafe,
         stages |-> 0..(densitySafe - 1),
         dryMix |-> [stage \in 0..(densitySafe - 1) |-> DryMix(stage, densitySafe)],
         scale |-> OutputScale(densitySafe)]

DifInit(sampleRate, fill) ==
    /\ hist = << >>
    /\ m_delayLineDifuser' = [m_delayLineDifuser EXCEPT
            ![0] = DifuserInit(@, DifusionLenght, sampleRate, fill)]
    /\ last' = [op |-> "Init"]
    /\ phase' = "prepared"
    /\ UNCHANGED <<cb, hist, rd, m_envelopeFollower, outBuf, wetBuf, nCalls, params>>

DifClear ==
    /\ m_delayLineDifuser' = [m_delayLineDifuser EXCEPT ![0] = DifuserClear(@)]
    /\ last' = [op |-> "Clear"]
    /\ hist' = << >>
    /\ nCalls' = 0
    /\ wetBuf' = [wetBuf EXCEPT ![0] = << >>]
    /\ UNCHANGED <<cb, rd, m_envelopeFollower, outBuf, params, phase>>

DifProcessSample(inSample, density, g) ==
    /\ phase = "prepared"
    /\ nCalls < MaxCalls
    /\ LET r == ProcessSample(m_delayLineDifuser[0], inSample, params.factor, density, g)
       IN  /\ m_delayLineDifuser' = [m_delayLineDifuser EXCEPT ![0] = r.net]
           /\ wetBuf' = [wetBuf EXCEPT ![0] = <<r.out>>]
    /\ last' = CallRecord(inSample, params.factor, density, g)
    /\ hist' = Append(hist, density)
    /\ nCalls' = nCalls + 1
    /\ UNCHANGED <<cb, rd, m_envelopeFollower, outBuf, params, phase>>

InitDifuser ==
    /\ cb = << >>
    /\ hist = << >>
    /\ rd = << >>
    /\ last = NoCall
    /\ nCalls = 0
    /\ m_delayLineDifuser = [c \in {0} |-> NewDelayLineDifuser]
    /\ m_envelopeFollower = << >>
    /\ params \in {[factor |-> f] : f \in NetFactors}
    /\ outBuf = << >>
    /\ wetBuf = [c \in {0} |-> << >>]
    /\ phase = "constructed"

NextDifuser ==
    \/ \E sampleRate \in SampleRates : \E fill \in Garbage : DifInit(sampleRate, fill)
    \/ DifClear
    \/ \E inSample \in Inputs : \E density \in Densities : \E g \in Garbage :
            DifProcessSample(inSample, density, g)

SpecDifuser == InitDifuser /\ [][NextDifuser]_vars

(***************************************************************************)
(* Claims about DelayLineDifuser, checked under SpecDifuser                *)
(***************************************************************************)
\* the density the claims expect a call to run with
ExpectedDensity(density) == IF density < 2 THEN 2 ELSE IF density > 8 THEN 8 ELSE density

\* C6: with the same prior state, input and factor, a density below 2 gives the
\* output and the resulting state of density 2, and a density above 8 those of
\* density 8; the divisor of the dry-mix term is never 0 and only stages in [0, 8)
\* are touched.
C6_DensityClampStep ==
    last'.op = "ProcessSample" =>
        LET e == ProcessSample(m_delayLineDifuser[0], last'.inSample, last'.factor,
                               ExpectedDensity(last'.density), last'.g)
        IN  /\ m_delayLineDifuser'[0] = e.net
            /\ wetBuf'[0] = <<e.out>>
            /\ last'.densitySafe # 0
            /\ last'.stages \subseteq Stages

C6_DensityClamp == [][C6_DensityClampStep]_vars

\* a call with density -1 on a network holding samples, whose result differs from
\* what a single-stage run would leave: stage 1 was written
C6_Witness ==
    /\ last.op = "ProcessSample" /\ last.density = -1 /\ last.inSample = UNIT
    /\ Len(hist) = 2
    /\ m_delayLineDifuser[0][1][0].m_head = 2
    /\ m_delayLineDifuser[0][1][0].m_buffer[2] # 0

\* C8 (as claimed): the dry-mix coefficient after stage s is (1 - s/D) * 0.5 for the
\* clamped density D, so it is 0.5 at stage 0 and strictly decreases with s.
C8_DryMixShrinks ==
    last.op = "ProcessSample" =>
        LET D == ExpectedDensity(last.density)
        IN  \A stage \in 0..(D - 1) :
                /\ last.dryMix[stage] * 2 * D = WSCALE * (D - stage)
                /\ stage + 1 < D => last.dryMix[stage + 1] < last.dryMix[stage]

\* C9 (as claimed): the final gain is 1 - (D/8) * 0.75 = (32 - 3 D) / 32 for the
\* clamped density D (0.8125 at D = 2), strictly smaller for D + 1 than for D.
C9_OutputScale ==
    last.op = "ProcessSample" =>
        LET D == ExpectedDensity(last.density)
        IN  /\ last.scale * 32 = WSCALE * (32 - 3 * D)
            /\ D < 8 => OutputScale(D + 1) < OutputScale(D)

\* C10: a call of ProcessSample with clamped density D writes one sample into each
\* of the 4 lines of stages 0 .. D-1, moving each head by one modulo the capacity,
\* and leaves stages D .. 7 as they are; neither ProcessSample nor Clear changes a
\* capacity.
C10_FrameStep ==
    /\ last'.op = "ProcessSample" =>
        LET D == ExpectedDensity(last'.density)
        IN  \A stage \in Stages : \A delayLine \in DelayLines :
                LET b == m_delayLineDifuser[0][stage][delayLine]
                    c == m_delayLineDifuser'[0][stage][delayLine]
                IN  IF stage < D
                    THEN /\ c.m_size = b.m_size
                         /\ c.m_head = (b.m_head + 1) % b.m_size
                         /\ \A i \in 1..b.m_size :
                                i # b.m_head + 1 => c.m_buffer[i] = b.m_buffer[i]
                    ELSE c = b
    /\ last'.op = "Clear" =>
        \A stage \in Stages : \A delayLine \in DelayLines :
            /\ m_delayLineDifuser'[0][stage][delayLine].m_size
                    = m_delayLineDifuser[0][stage][delayLine].m_size
            /\ Len(m_delayLineDifuser'[0][stage][delayLine].m_buffer)
                    = Len(m_delayLineDifuser[0][stage][delayLine].m_buffer)

C10_Frame == [][C10_FrameStep]_vars

\* density 3, then 2 stages only, then 3 again: stage 2 holds the two samples of
\* the calls that ran it and was left alone by the call in between
C10_Witness ==
    /\ hist = <<3, -1, 3>>
    /\ last.op = "ProcessSample"
    /\ m_delayLineDifuser[0][2][3].m_head = 2
    /\ m_delayLineDifuser[0][1][3].m_head = 3
    /\ m_delayLineDifuser[0][2][3].m_buffer[1] # 0
    /\ m_delayLineDifuser[0][3][3].m_head = 0

(***************************************************************************)
(* EnvelopeFollower and juce::Decibels                                     *)
(***************************************************************************)
\* EnvelopeFollower's member initialisers
NewEnvelopeFollower ==
    [m_SampleRate |-> 0, m_Envelope |-> 0, m_AttackCoef |-> 0, m_ReleaseCoef |-> 0]

\* EnvelopeFollower::Init(sampleRate)
EnvelopeInit(e, sampleRate) == [e EXCEPT !.m_SampleRate = sampleRate]

\* expf(-num / den) in 1/WSCALE: the power series to 8 terms, summed in 1/1000000
RECURSIVE ExpNegSum(_, _, _, _, _)
ExpNegSum(num, den, k, term, acc) ==
    IF k > 8
    THEN acc
    ELSE LET t == (term * num) \div (den * k)
         IN  ExpNegSum(num, den, k + 1, t, IF k % 2 = 1 THEN acc - t ELSE acc + t)

ExpNeg(num, den) == ExpNegSum(num, den, 1, 1000000, 1000000) \div 100

\* EnvelopeFollower::SetCoef(attackTime, releaseTime)
EnvelopeSetCoef(e, attackTime, releaseTime) ==
    [e EXCEPT !.m_AttackCoef = ExpNeg(1000, attackTime * e.m_SampleRate),
              !.m_ReleaseCoef = ExpNeg(1000, releaseTime * e.m_SampleRate)]

\* EnvelopeFollower::process(in): the follower it leaves; its m_Envelope is returned
EnvelopeProcess(e, in) ==
    LET tmp == Abs(in)
    IN  IF tmp > e.m_Envelope
        THEN [e EXCEPT !.m_Envelope = tmp + MulFrac(e.m_Envelope - tmp, e.m_AttackCoef, WSCALE)]
        ELSE [e EXCEPT !.m_Envelope = tmp + MulFrac(e.m_Envelope - tmp, e.m_ReleaseCoef, WSCALE)]

\* 10^(r/20) for r = 0 .. 19, in 1/1000000
Pow10Frac ==
    << 1000000, 1122018, 1258925, 1412538, 1584893, 1778279, 1995262, 2238721,
       2511886, 2818383, 3162278, 3548134, 3981072, 4466836, 5011872, 5623413,
       6309573, 7079458, 7943282, 8912509 >>

RECURSIVE Pow10(_)
Pow10(n) == IF n <= 0 THEN 1 ELSE 10 * Pow10(n - 1)

\* juce::Decibels::decibelsToGain(dB) = 10^(dB/20) for a whole dB in -100 .. 40,
\* in 1/1000000
DecibelsToGain(dB) ==
    LET q == dB \div 20
        r == dB % 20
    IN  IF q >= 0 THEN Pow10Frac[r + 1] * Pow10(q) ELSE Pow10Frac[r + 1] \div Pow10(-q)

\* the whole dB at or below a gain x > 0 given in 1/1000000, and the result of
\* gainToDecibels in hundredths of a dB, linear between two whole dB
DecibelsOf(x) ==
    LET ks == {k \in -100..39 : DecibelsToGain(k) <= x /\ x < DecibelsToGain(k + 1)}
    IN  IF ks = {}
        THEN IF x < DecibelsToGain(-100) THEN -10000 ELSE 4000
        ELSE The({ 100 * k + (100 * (x - DecibelsToGain(k)))
                                \div (DecibelsToGain(k + 1) - DecibelsToGain(k))
                   : k \in ks })

\* juce::Decibels::gainToDecibels(gain): gain > 0 ? max(-100, 20 log10(gain)) : -100,
\* gain in 1/UNIT, the result in hundredths of a dB
GainToDecibels(gain) ==
    The({ IF v <= 0 THEN -10000 ELSE DecibelsOf(v * (1000000 \div UNIT)) : v \in {gain} })

(***************************************************************************)
(* DifuserAudioProcessor                                                   *)
(***************************************************************************)
Channels == 0..1

\* the body of the sample loop of processBlock after the envelope follower ran:
\* the sample written back for the input in, the wet sample inDifuse and the
\* envelope; p holds the parameter values: factor and mix in percent, density,
\* threshold and volume in dB
OutputSample(in, inDifuse, envelope, p, volume) ==
    LET thresholddB == 100 * p.threshold
        DynamicMix(envelopedB) ==
            IF envelopedB > thresholddB
            THEN LET m == ((envelopedB - thresholddB) * WSCALE) \div 1200
                 IN  IF m < WSCALE THEN m ELSE WSCALE
            ELSE 0
        Out(dynamicMix) ==
            LET inDifuseDynamic == MulFrac(inDifuse, dynamicMix, WSCALE)
                                   + MulFrac(in, WSCALE - dynamicMix, WSCALE)
                mixed == MulFrac(inDifuseDynamic, p.mix, 100) + MulFrac(in, 100 - p.mix, 100)
            IN  MulFrac(mixed, volume, WSCALE)
    IN  The({ Out(DynamicMix(envelopedB)) : envelopedB \in {GainToDecibels(envelope)} })

\* one pass of the sample loop of processBlock, for sample i of a channel; st holds
\* the channel's network and follower, its buffer and the wet samples so far
SampleStep(st, i, p, volume, g) ==
    LET in == st.channelBuffer[i]
        Rest(r, e) ==
            [net |-> r.net, env |-> e,
             channelBuffer |-> [st.channelBuffer EXCEPT
                                    ![i] = OutputSample(in, r.out, e.m_Envelope, p, volume)],
             wet |-> Append(st.wet, r.out)]
        Follow(r) == The({ Rest(r, e) : e \in {EnvelopeProcess(st.env, r.out)} })
    IN  The({ Follow(r) : r \in {ProcessSample(st.net, in, p.factor, p.density, g)} })

\* the sample loop of processBlock for one channel, from sample i on
RECURSIVE ProcessChannel(_, _, _, _, _)
ProcessChannel(st, i, p, volume, g) ==
    IF i > Len(st.channelBuffer)
    THEN st
    ELSE The({ ProcessChannel(next, i + 1, p, volume, g) : next \in {SampleStep(st, i, p, volume, g)} })

\* the attack and release times of prepareToPlay, in ms
attack == 10
release == 200

\* DifuserAudioProcessor::prepareToPlay(sampleRate, samplesPerBlock)
prepareToPlay(sampleRate, fill) ==
    /\ m_delayLineDifuser' = [c \in Channels |->
            DifuserClear(DifuserInit(m_delayLineDifuser[c], DifusionLenght, sampleRate, fill))]
    /\ m_envelopeFollower' = [c \in Channels |->
            EnvelopeSetCoef(EnvelopeInit(m_envelopeFollower[c], sampleRate), attack, release)]
    /\ phase' = "prepared"
    /\ last' = [op |-> "prepareToPlay"]
    /\ UNCHANGED <<cb, hist, rd, outBuf, wetBuf, nCalls, params>>

\* DifuserAudioProcessor::releaseResources()
releaseResources ==
    /\ phase = "prepared"
    /\ m_delayLineDifuser' = [c \in Channels |-> DifuserClear(m_delayLineDifuser[c])]
    /\ phase' = "released"
    /\ last' = [op |-> "releaseResources"]
    /\ UNCHANGED <<cb, hist, rd, m_envelopeFollower, outBuf, wetBuf, nCalls, params>>

\* the number of blocks the host has processed in a run
MaxBlocks == 2

\* DifuserAudioProcessor::processBlock(buffer, midiMessages); the host calls it
\* between prepareToPlay and releaseResources
processBlock(buffer, g) ==
    /\ phase = "prepared"
    /\ nCalls < MaxBlocks
    /\ \E volume \in {DecibelsToGain(params.volume) \div 100} :
       LET Run(c) == ProcessChannel([net |-> m_delayLineDifuser[c],
                                     env |-> m_envelopeFollower[c],
                                     channelBuffer |-> buffer[c], wet |-> << >>],
                                    1, params, volume, g)
       IN  \E r \in {<<Run(0), Run(1)>>} :
               /\ m_delayLineDifuser' = [c \in Channels |-> r[c + 1].net]
               /\ m_envelopeFollower' = [c \in Channels |-> r[c + 1].env]
               /\ outBuf' = [c \in Channels |-> r[c + 1].channelBuffer]
               /\ wetBuf' = [c \in Channels |-> r[c + 1].wet]
    /\ last' = [op |-> "processBlock", buffer |-> buffer]
    /\ hist' = Append(hist, \A c \in Channels : \A i \in 1..Len(buffer[c]) : buffer[c][i] = 0)
    /\ nCalls' = nCalls + 1
    /\ UNCHANGED <<cb, rd, params, phase>>

\* the host or the editor sets the parameters (apvts)
setParameters(p) ==
    /\ params # p
    /\ params' = p
    /\ last' = [op |-> "setParameters"]
    /\ UNCHANGED <<cb, hist, rd, m_delayLineDifuser, m_envelopeFollower, outBuf, wetBuf,
                   nCalls, phase>>

\* createParameterLayout's defaults: Lenght 0.5, Density 4, Threshold -30, Mix 0.5,
\* Volume 0
DefaultParams == [factor |-> 50, density |-> 4, threshold |-> -30, mix |-> 50, volume |-> 0]

\* parameter settings within the ranges of createParameterLayout
ParamConfigs ==
    { DefaultParams,
      [factor |-> 10, density |-> 2, threshold |-> -60, mix |-> 100, volume |-> 0],
      [factor |-> 0, density |-> 8, threshold |-> 0, mix |-> 0, volume |-> 12] }

\* audio blocks of the host: silence, and an impulse on the left channel
Silence(n) == [c \in Channels |-> [i \in 1..n |-> 0]]
Impulse(n) == [c \in Channels |-> [i \in 1..n |-> IF c = 0 /\ i = 1 THEN UNIT ELSE 0]]
InputBlocks == {Silence(4), Impulse(4), Impulse(1)}

Init ==
    /\ cb = << >>
    /\ hist = << >>
    /\ rd = << >>
    /\ last = NoCall
    /\ nCalls = 0
    /\ m_delayLineDifuser = [c \in Channels |-> NewDelayLineDifuser]
    /\ m_envelopeFollower = [c \in Channels |-> NewEnvelopeFollower]
    /\ params = DefaultParams
    /\ outBuf = [c \in Channels |-> << >>]
    /\ wetBuf = [c \in Channels |-> << >>]
    /\ phase = "constructed"

Next ==
    \/ \E sampleRate \in SampleRates : \E fill \in Garbage : prepareToPlay(sampleRate, fill)
    \/ releaseResources
    \/ \E buffer \in InputBlocks : \E g \in Garbage : processBlock(buffer, g)
    \/ \E p \in ParamConfigs : setParameters(p)

Spec == Init /\ [][Next]_vars

(***************************************************************************)
(* Claims about the processor, checked under Spec                          *)
(***************************************************************************)
AllZero(q) == \A i \in 1..Len(q) : q[i] = 0

\* C4 (as claimed): from the state Clear leaves (and an envelope of 0), zero input
\* samples through processBlock give an output sample of exactly 0 at every step,
\* for every parameter setting in range; the wet sample ProcessSample returns is 0
\* at every step.
C4_SilenceInSilenceOut ==
    (last.op = "processBlock" /\ \A k \in 1..Len(hist) : hist[k]) =>
        \A c \in Channels : AllZero(outBuf[c]) /\ AllZero(wetBuf[c])

\* C5 (as claimed): after prepareToPlay or releaseResources, whatever was processed
\* before, every sample of all 8 x 4 lines is 0, every head is 0 and the envelope
\* of each EnvelopeFollower is 0.
C5_ResetOnRestart ==
    last.op \in {"prepareToPlay", "releaseResources"} =>
        \A c \in Channels :
            /\ \A stage \in Stages : \A delayLine \in DelayLines :
                    /\ m_delayLineDifuser[c][stage][delayLine].m_head = 0
                    /\ AllZero(m_delayLineDifuser[c][stage][delayLine].m_buffer)
            /\ m_envelopeFollower[c].m_Envelope = 0

====
